---- MODULE Spec2Model ----
(***************************************************************************)
(* Model of webflow-mcp-server (src/src/index.ts): process start-up, the   *)
(* list_tools handler, the call_tool dispatch handler and the two tool     *)
(* handlers get_site and get_sites, with the remote Webflow client as an   *)
(* environment that answers each issued call with a record, a list, a      *)
(* nullish value or a thrown value.                                        *)
(*                                                                         *)
(* Strings are sequences of tokens (Str); a template literal is the        *)
(* concatenation of its literal chunks and its interpolated values.        *)
(***************************************************************************)
EXTENDS Integers, Sequences, FiniteSets, TLC

(* ---------------- bounds ---------------- *)
MaxSites == 2
MaxRequests == 3

(* ---------------- strings ---------------- *)
Contains(text, s) ==
  \E i \in 0..(Len(text) - Len(s)) : SubSeq(text, i + 1, i + Len(s)) = s

Digit == <<"0", "1", "2", "3", "4", "5", "6", "7", "8", "9">>

RECURSIVE NumToStr(_)
NumToStr(n) ==
  IF n < 10 THEN <<Digit[n + 1]>>
  ELSE NumToStr(n \div 10) \o <<Digit[(n % 10) + 1]>>

(* ---------------- JavaScript values that are thrown ---------------- *)
MkError(name, message) ==
  [typeofv |-> "object", isNull |-> FALSE, hasCode |-> FALSE, code |-> "",
   name |-> name, message |-> message]

NoError ==
  [typeofv |-> "undefined", isNull |-> FALSE, hasCode |-> FALSE, code |-> "",
   name |-> "", message |-> <<>>]

\* values the remote client can throw: null, a primitive string, an Error
\* without a code property, and objects carrying a code property
UpstreamErrors ==
  { [typeofv |-> "object", isNull |-> TRUE, hasCode |-> FALSE, code |-> "",
     name |-> "", message |-> <<"raw:null">>],
    [typeofv |-> "string", isNull |-> FALSE, hasCode |-> FALSE, code |-> "",
     name |-> "", message |-> <<"raw:boom">>],
    [typeofv |-> "object", isNull |-> FALSE, hasCode |-> FALSE, code |-> "",
     name |-> "TypeError", message |-> <<"raw:fetch failed">>],
    [typeofv |-> "object", isNull |-> FALSE, hasCode |-> TRUE,
     code |-> "NOT_FOUND", name |-> "WebflowError", message |-> <<"raw:404">>],
    [typeofv |-> "object", isNull |-> FALSE, hasCode |-> TRUE,
     code |-> "not_found", name |-> "WebflowError", message |-> <<"raw:404lc">>],
    [typeofv |-> "object", isNull |-> FALSE, hasCode |-> TRUE,
     code |-> "UNAUTHORIZED", name |-> "WebflowError", message |-> <<"raw:401">>] }

isWebflowApiError(error) ==
  ~error.isNull /\ error.typeofv = "object" /\ error.hasCode

(* ---------------- environment and configuration ---------------- *)
EnvValues == {"absent", "empty", "tok"}

Falsy_OnlyMissing(v) == v \in {"absent", "undefined", "null"}

Falsy(v) == v \in {"absent", "empty", "undefined", "null"}

(* ---------------- input schemas ---------------- *)
\* tool arguments: what `arguments` of the request can be
ArgValues ==
  { [typeofv |-> "undefined", isNull |-> FALSE, siteIdType |-> "undefined", siteId |-> <<>>],
    [typeofv |-> "object", isNull |-> TRUE, siteIdType |-> "undefined", siteId |-> <<>>],
    [typeofv |-> "string", isNull |-> FALSE, siteIdType |-> "undefined", siteId |-> <<>>],
    [typeofv |-> "object", isNull |-> FALSE, siteIdType |-> "undefined", siteId |-> <<>>],
    [typeofv |-> "object", isNull |-> FALSE, siteIdType |-> "number", siteId |-> <<>>],
    [typeofv |-> "object", isNull |-> FALSE, siteIdType |-> "string", siteId |-> <<>>],
    [typeofv |-> "object", isNull |-> FALSE, siteIdType |-> "string", siteId |-> <<"a">>],
    [typeofv |-> "object", isNull |-> FALSE, siteIdType |-> "string", siteId |-> <<"a", "b">>] }

IsObject(args) == args.typeofv = "object" /\ ~args.isNull

getSiteAccepts_NoMin(args) == IsObject(args) /\ args.siteIdType = "string"

\* z.object({ siteId: z.string().min(1, "Site ID is required") })
getSiteAccepts(args) ==
  IsObject(args) /\ args.siteIdType = "string" /\ Len(args.siteId) >= 1

getSiteIssue(args) ==
  IF ~IsObject(args) THEN <<"Expected object">>
  ELSE IF args.siteIdType = "undefined" THEN <<"Required">>
  ELSE IF args.siteIdType # "string" THEN <<"Expected string">>
  ELSE <<"Site ID is required">>

\* z.object({})
getSitesAccepts(args) == IsObject(args)

(* ---------------- sites ---------------- *)
SiteIds == {<<"a">>, <<"a", "b">>}

PreviewUrls ==
  { [defined |-> FALSE, value |-> <<>>],
    [defined |-> TRUE, value |-> <<>>],
    [defined |-> TRUE, value |-> <<"https://p">>] }

Sites ==
  { [id |-> i, displayName |-> <<"Demo">> \o i, shortName |-> <<"demo">> \o i,
     workspaceId |-> <<"w1">>, createdOn |-> d[1], lastPublished |-> d[2],
     previewUrl |-> p] :
    i \in SiteIds, d \in {<<"undefined", "null">>, <<"d1", "d2">>}, p \in PreviewUrls }

NoSite ==
  [id |-> <<>>, displayName |-> <<>>, shortName |-> <<>>, workspaceId |-> <<>>,
   createdOn |-> "undefined", lastPublished |-> "undefined",
   previewUrl |-> [defined |-> FALSE, value |-> <<>>]]

SiteLists == UNION { [1..n -> Sites] : n \in 0..MaxSites }

(* ---------------- formatting ---------------- *)
toLocaleString(date) == <<"locale(" , date, ")">>

formatDate(date) == IF Falsy(date) THEN <<"N/A">> ELSE toLocaleString(date)

\* site.previewUrl || "N/A"
PreviewOrNA(p) == IF ~p.defined \/ p.value = <<>> THEN <<"N/A">> ELSE p.value

formattedSite(site) ==
  <<"* Site Details:\n", "ID: ">> \o site.id
  \o <<"\n", "Display Name: ">> \o site.displayName
  \o <<"\n", "Short Name: ">> \o site.shortName
  \o <<"\n\n- Workspace Information:\n", "Workspace ID: ">> \o site.workspaceId
  \o <<"\n\n- Dates:\n", "Created On: ">> \o formatDate(site.createdOn)
  \o <<"\n", "Last Published: ">> \o formatDate(site.lastPublished)
  \o <<"\n\n- URLs:\n", "Preview URL: ">> \o PreviewOrNA(site.previewUrl)

SiteBlock(site) ==
  <<"\n* Site: ">> \o site.displayName
  \o <<"\n  - ID: ">> \o site.id
  \o <<"\n  - Workspace: ">> \o site.workspaceId
  \o <<"\n  - Created: ">> \o formatDate(site.createdOn)
  \o <<"\n  - Last Published: ">> \o formatDate(site.lastPublished)
  \o <<"\n  - Preview URL: ">> \o PreviewOrNA(site.previewUrl)
  \o <<"\n">>

RECURSIVE JoinBlocks_Reversed(_)
JoinBlocks_Reversed(sites) ==
  IF Len(sites) = 0 THEN <<>>
  ELSE IF Len(sites) = 1 THEN SiteBlock(sites[1])
  ELSE JoinBlocks_Reversed(Tail(sites)) \o <<"\n">> \o SiteBlock(sites[1])

\* sites.map(block).join("\n")
RECURSIVE JoinBlocks(_)
JoinBlocks(sites) ==
  IF Len(sites) = 0 THEN <<>>
  ELSE IF Len(sites) = 1 THEN SiteBlock(sites[1])
  ELSE SiteBlock(sites[1]) \o <<"\n">> \o JoinBlocks(Tail(sites))

formattedSites(sites) == JoinBlocks(sites)

FoundText(sites) ==
  <<"Found ">> \o NumToStr(Len(sites)) \o <<" sites:\n">> \o formattedSites(sites)

TextContent(text) == <<[type |-> "text", text |-> text]>>

(* ---------------- tool registry and handler table ---------------- *)
TOOL_DEFINITIONS ==
  << [name |-> "get_site", properties |-> <<"siteId">>, required |-> <<"siteId">>],
     [name |-> "get_sites", properties |-> <<>>, required |-> <<>>] >>

\* own property names of the toolHandlers object literal
toolHandlers == {"get_site", "get_sites"}

ToolNames ==
  {"get_site", "get_sites", "no_such_tool", "toString", "constructor", "__proto__"}

\* toolHandlers[name]: own properties first, then Object.prototype
Lookup(table, name) ==
  IF name \in table THEN [kind |-> "own", fn |-> name]
  ELSE IF name = "toString" THEN [kind |-> "inherited_fn", fn |-> "Object.prototype.toString"]
  ELSE IF name = "constructor" THEN [kind |-> "inherited_fn", fn |-> "Object"]
  ELSE IF name = "__proto__" THEN [kind |-> "inherited_obj", fn |-> ""]
  ELSE [kind |-> "undefined", fn |-> ""]

(* ---------------- handler results ---------------- *)
NoValue == [kind |-> "none", content |-> <<>>, text |-> <<>>]

ContentValue(text) == [kind |-> "content", content |-> TextContent(text), text |-> <<>>]

Returns(value) == [threw |-> FALSE, value |-> value, error |-> NoError, log |-> <<>>]

Throws(error, lines) == [threw |-> TRUE, value |-> NoValue, error |-> error, log |-> lines]

LogLine(prefix, value) == [prefix |-> prefix, value |-> value]

(* ---------------- remote client ---------------- *)
NoOutcome == [kind |-> "none", site |-> NoSite, sites |-> <<>>, error |-> NoError]

GetOutcomes ==
  { [kind |-> "record", site |-> s, sites |-> <<>>, error |-> NoError] : s \in Sites }
  \cup { [kind |-> k, site |-> NoSite, sites |-> <<>>, error |-> NoError] :
         k \in {"null", "undefined"} }
  \cup { [kind |-> "throw", site |-> NoSite, sites |-> <<>>, error |-> e] :
         e \in UpstreamErrors }

ListOutcomes ==
  { [kind |-> "list", site |-> NoSite, sites |-> l, error |-> NoError] : l \in SiteLists }
  \cup { [kind |-> k, site |-> NoSite, sites |-> <<>>, error |-> NoError] :
         k \in {"notlist", "noresponse"} }
  \cup { [kind |-> "throw", site |-> NoSite, sites |-> <<>>, error |-> e] :
         e \in UpstreamErrors }

SitesGetCall(siteId, token) == [op |-> "sites.get", arg |-> siteId, token |-> token]

SitesListCall(token) == [op |-> "sites.list", arg |-> <<>>, token |-> token]

(* ---------------- get_site ---------------- *)
GetSiteCatch_NoNotFound(error, siteId) ==
  Throws(MkError("Error", <<"Failed to fetch site details">>),
         <<LogLine(<<"Error fetching site:">>, error)>>)

\* the catch block of get_site
GetSiteCatch(error, siteId) ==
  IF isWebflowApiError(error) /\ error.code = "NOT_FOUND"
  THEN Returns(ContentValue(<<"Site with ID ">> \o siteId \o <<" not found.">>))
  ELSE Throws(MkError("Error", <<"Failed to fetch site details">>),
              <<LogLine(<<"Error fetching site:">>, error)>>)

GetSiteResume_NullIsNotFound(out, siteId) ==
  IF out.kind = "throw" THEN GetSiteCatch(out.error, siteId)
  ELSE IF Falsy(out.kind)
  THEN Returns(ContentValue(<<"Site with ID ">> \o siteId \o <<" not found.">>))
  ELSE Returns(ContentValue(formattedSite(out.site)))

\* get_site after `await webflow.sites.get(siteId)` settles
GetSiteResume(out, siteId) ==
  IF out.kind = "throw" THEN GetSiteCatch(out.error, siteId)
  ELSE IF Falsy(out.kind) THEN GetSiteCatch(MkError("Error", <<"Site not found">>), siteId)
  ELSE Returns(ContentValue(formattedSite(out.site)))

(* ---------------- get_sites ---------------- *)
GetSitesCatch_Rethrow(error) ==
  Throws(error, <<LogLine(<<"Error fetching sites:">>, error)>>)

GetSitesCatch(error) ==
  Throws(MkError("Error", <<"Failed to fetch sites list">>),
         <<LogLine(<<"Error fetching sites:">>, error)>>)

\* get_sites after `await webflow.sites.list()` settles
GetSitesResume(out) ==
  IF out.kind = "throw" THEN GetSitesCatch(out.error)
  ELSE IF out.kind = "noresponse"
  THEN GetSitesCatch(MkError("TypeError", <<"Cannot destructure property 'sites'">>))
  ELSE IF out.kind # "list" \/ Len(out.sites) = 0
  THEN Returns(ContentValue(<<"No sites found for this account.">>))
  ELSE Returns(ContentValue(FoundText(out.sites)))

(* ---------------- list_tools ---------------- *)
ListToolsResult(defs) == defs

(* ---------------- state ---------------- *)
VARIABLES
  env,               \* process.env.WEBFLOW_API_TOKEN
  phase,             \* position of the start-up code
  exitCode,          \* process exit status, -1 while running
  accessToken,       \* const accessToken
  toolDefs,          \* TOOL_DEFINITIONS as held by the process
  handlerTable,      \* own keys of toolHandlers as held by the process
  transportCreated,  \* new StdioServerTransport() has run
  connected,         \* server.connect(transport) has resolved
  req,               \* the request being handled / last handled
  pc,                \* position of the request: idle, executing, completed, failed
  invoked,           \* the function called as handler for req, "none" if none
  remoteCalls,       \* remote calls issued for req
  remoteOut,         \* how the awaited remote call settled
  resp,              \* what the request handler returned or threw
  log,               \* console.error lines written for req
  handled,           \* number of requests received
  failures           \* number of call_tool requests that ended failed

vars ==
  <<env, phase, exitCode, accessToken, toolDefs, handlerTable, transportCreated,
    connected, req, pc, invoked, remoteCalls, remoteOut, resp, log, handled, failures>>

serverVars == <<env, phase, exitCode, accessToken, toolDefs, handlerTable,
                transportCreated, connected>>

requestVars == <<req, pc, invoked, remoteCalls, remoteOut, resp, log, handled, failures>>

ArgUndefined ==
  [typeofv |-> "undefined", isNull |-> FALSE, siteIdType |-> "undefined", siteId |-> <<>>]

NoRequest == [kind |-> "none", name |-> "", args |-> ArgUndefined]

NoResponse == [status |-> "none", tools |-> <<>>, value |-> NoValue, error |-> NoError]

Init ==
  /\ env \in EnvValues
  /\ phase = "load"
  /\ exitCode = -1
  /\ accessToken = "unset"
  /\ toolDefs = <<>>
  /\ handlerTable = {}
  /\ transportCreated = FALSE
  /\ connected = FALSE
  /\ req = NoRequest
  /\ pc = "idle"
  /\ invoked = "none"
  /\ remoteCalls = <<>>
  /\ remoteOut = NoOutcome
  /\ resp = NoResponse
  /\ log = <<>>
  /\ handled = 0
  /\ failures = 0

(* ---------------- start-up ---------------- *)
\* module top level, lines 11-204: token, server, schemas, tables, handlers
LoadModule ==
  /\ phase = "load"
  /\ IF Falsy(env)
     THEN /\ phase' = "terminated"
          /\ exitCode' = 1
          /\ UNCHANGED <<accessToken, toolDefs, handlerTable>>
     ELSE /\ phase' = "main"
          /\ accessToken' = env
          /\ toolDefs' = TOOL_DEFINITIONS
          /\ handlerTable' = toolHandlers
          /\ UNCHANGED exitCode
  /\ UNCHANGED <<env, transportCreated, connected>>
  /\ UNCHANGED requestVars

\* main(): the required environment variable check
MainCheckEnv ==
  /\ phase = "main"
  /\ IF Falsy(env)
     THEN phase' = "terminated" /\ exitCode' = 1
     ELSE phase' = "checked" /\ UNCHANGED exitCode
  /\ UNCHANGED <<env, accessToken, toolDefs, handlerTable, transportCreated, connected>>
  /\ UNCHANGED requestVars

\* main(): new StdioServerTransport()
CreateTransport ==
  /\ phase = "checked"
  /\ phase' = "transport"
  /\ transportCreated' = TRUE
  /\ UNCHANGED <<env, exitCode, accessToken, toolDefs, handlerTable, connected>>
  /\ UNCHANGED requestVars

\* main(): await server.connect(transport); a rejection is caught and exits 1
Connect ==
  /\ phase = "transport"
  /\ \E ok \in BOOLEAN :
       IF ok
       THEN phase' = "running" /\ connected' = TRUE /\ UNCHANGED exitCode
       ELSE phase' = "terminated" /\ exitCode' = 1 /\ UNCHANGED connected
  /\ UNCHANGED <<env, accessToken, toolDefs, handlerTable, transportCreated>>
  /\ UNCHANGED requestVars

(* ---------------- requests ---------------- *)
CanReceive_StopsAfterFailure ==
  phase = "running" /\ pc # "executing" /\ handled < MaxRequests /\ failures = 0

CanReceive == phase = "running" /\ pc # "executing" /\ handled < MaxRequests

\* the ListToolsRequestSchema handler
ListTools ==
  /\ CanReceive
  /\ req' = [kind |-> "list_tools", name |-> "", args |-> ArgUndefined]
  /\ pc' = "completed"
  /\ invoked' = "none"
  /\ remoteCalls' = <<>>
  /\ remoteOut' = NoOutcome
  /\ resp' = [status |-> "completed", tools |-> ListToolsResult(toolDefs),
              value |-> NoValue, error |-> NoError]
  /\ log' = <<LogLine(<<"Tools requested by client">>, NoError)>>
  /\ handled' = handled + 1
  /\ UNCHANGED failures
  /\ UNCHANGED serverVars

\* the catch block of the CallToolRequestSchema handler: log, rethrow
DispatchCatch(name, error, lines) ==
  [status |-> "failed", value |-> NoValue, error |-> error,
   log |-> lines \o <<LogLine(<<"Error executing tool ", name, ":">>, error)>>]

\* what the CallToolRequestSchema handler does with a settled handler
DispatchSettle(name, hres) ==
  IF hres.threw THEN DispatchCatch(name, hres.error, hres.log)
  ELSE [status |-> "completed", value |-> hres.value, error |-> NoError, log |-> hres.log]

\* the CallToolRequestSchema handler up to the first await of the tool
\* handler, or to its end when nothing is awaited
CallToolStep(table, token, name, args) ==
  LET handler == Lookup(table, name) IN
  IF handler.kind = "undefined"
  THEN [invoked |-> "none", calls |-> <<>>, pending |-> FALSE,
        out |-> DispatchSettle(name, Throws(MkError("Error", <<"Unknown tool: ", name>>), <<>>))]
  ELSE IF handler.kind = "inherited_obj"
  THEN [invoked |-> "none", calls |-> <<>>, pending |-> FALSE,
        out |-> DispatchSettle(name, Throws(MkError("TypeError", <<"handler is not a function">>), <<>>))]
  ELSE IF handler.fn = "Object.prototype.toString"
  THEN [invoked |-> handler.fn, calls |-> <<>>, pending |-> FALSE,
        out |-> DispatchSettle(name,
                  Returns([kind |-> "string", content |-> <<>>, text |-> <<"[object Undefined]">>]))]
  ELSE IF handler.fn = "Object"
  THEN [invoked |-> handler.fn, calls |-> <<>>, pending |-> FALSE,
        out |-> DispatchSettle(name, Returns([kind |-> "object", content |-> <<>>, text |-> <<>>]))]
  ELSE IF handler.fn = "get_site"
  THEN IF getSiteAccepts(args)
       THEN [invoked |-> handler.fn, calls |-> <<SitesGetCall(args.siteId, token)>>,
             pending |-> TRUE, out |-> DispatchSettle(name, Returns(NoValue))]
       ELSE [invoked |-> handler.fn, calls |-> <<>>, pending |-> FALSE,
             out |-> DispatchSettle(name, Throws(MkError("ZodError", getSiteIssue(args)), <<>>))]
  ELSE [invoked |-> handler.fn, calls |-> <<SitesListCall(token)>>,
        pending |-> TRUE, out |-> DispatchSettle(name, Returns(NoValue))]

CallTool ==
  /\ CanReceive
  /\ \E name \in ToolNames, args \in ArgValues :
       LET step == CallToolStep(handlerTable, accessToken, name, args) IN
       /\ req' = [kind |-> "call_tool", name |-> name, args |-> args]
       /\ invoked' = step.invoked
       /\ remoteCalls' = step.calls
       /\ remoteOut' = NoOutcome
       /\ handled' = handled + 1
       /\ IF step.pending
          THEN /\ pc' = "executing"
               /\ resp' = NoResponse
               /\ log' = <<>>
               /\ UNCHANGED failures
          ELSE /\ pc' = step.out.status
               /\ resp' = [status |-> step.out.status, tools |-> <<>>,
                           value |-> step.out.value, error |-> step.out.error]
               /\ log' = step.out.log
               /\ failures' = IF step.out.status = "failed" THEN failures + 1 ELSE failures
  /\ UNCHANGED serverVars

SitesGetReply_Retry ==
  /\ pc = "executing"
  /\ invoked = "get_site"
  /\ \E out \in GetOutcomes :
       LET done == DispatchSettle(req.name, GetSiteResume(out, req.args.siteId)) IN
       IF done.status = "failed" /\ Len(remoteCalls) < 2
       THEN /\ remoteCalls' = Append(remoteCalls, SitesGetCall(req.args.siteId, accessToken))
            /\ UNCHANGED <<remoteOut, pc, resp, log, failures>>
       ELSE /\ remoteOut' = out
            /\ pc' = done.status
            /\ resp' = [status |-> done.status, tools |-> <<>>,
                        value |-> done.value, error |-> done.error]
            /\ log' = done.log
            /\ failures' = IF done.status = "failed" THEN failures + 1 ELSE failures
            /\ UNCHANGED remoteCalls
  /\ UNCHANGED <<req, invoked, handled>>
  /\ UNCHANGED serverVars

\* the awaited webflow.sites.get settles and get_site runs to its end
SitesGetReply ==
  /\ pc = "executing"
  /\ invoked = "get_site"
  /\ \E out \in GetOutcomes :
       LET done == DispatchSettle(req.name, GetSiteResume(out, req.args.siteId)) IN
       /\ remoteOut' = out
       /\ pc' = done.status
       /\ resp' = [status |-> done.status, tools |-> <<>>,
                   value |-> done.value, error |-> done.error]
       /\ log' = done.log
       /\ failures' = IF done.status = "failed" THEN failures + 1 ELSE failures
  /\ UNCHANGED <<req, invoked, remoteCalls, handled>>
  /\ UNCHANGED serverVars

\* the awaited webflow.sites.list settles and get_sites runs to its end
SitesListReply ==
  /\ pc = "executing"
  /\ invoked = "get_sites"
  /\ \E out \in ListOutcomes :
       LET done == DispatchSettle(req.name, GetSitesResume(out)) IN
       /\ remoteOut' = out
       /\ pc' = done.status
       /\ resp' = [status |-> done.status, tools |-> <<>>,
                   value |-> done.value, error |-> done.error]
       /\ log' = done.log
       /\ failures' = IF done.status = "failed" THEN failures + 1 ELSE failures
  /\ UNCHANGED <<req, invoked, remoteCalls, handled>>
  /\ UNCHANGED serverVars

Next ==
  \/ LoadModule
  \/ MainCheckEnv
  \/ CreateTransport
  \/ Connect
  \/ ListTools
  \/ CallTool
  \/ SitesGetReply
  \/ SitesListReply

Spec == Init /\ [][Next]_vars

\* the start-up code runs to its end: nothing in it waits on the outside
\* world except the connect, which settles
FairSpec ==
  Spec /\ WF_vars(LoadModule) /\ WF_vars(MainCheckEnv)
       /\ WF_vars(CreateTransport) /\ WF_vars(Connect)

(* ======================= properties ======================= *)
IsCall(name) == req.kind = "call_tool" /\ req.name = name

ValidSiteIdArgs ==
  /\ req.args.typeofv = "object"
  /\ ~req.args.isNull
  /\ req.args.siteIdType = "string"
  /\ req.args.siteId # <<>>

NotFoundRaised ==
  /\ remoteOut.kind = "throw"
  /\ remoteOut.error.typeofv = "object"
  /\ ~remoteOut.error.isNull
  /\ remoteOut.error.hasCode
  /\ remoteOut.error.code = "NOT_FOUND"

OneTextItem ==
  /\ resp.status = "completed"
  /\ resp.value.kind = "content"
  /\ Len(resp.value.content) = 1
  /\ resp.value.content[1].type = "text"

\* C1: a get_site request with a valid siteId whose remote fetch raises an
\* error object carrying code NOT_FOUND ends completed, with exactly one text
\* item whose text contains the requested siteId.
C1_NotFoundIsSuccess ==
  (IsCall("get_site") /\ ValidSiteIdArgs /\ NotFoundRaised)
    => /\ pc = "completed"
       /\ OneTextItem
       /\ Contains(resp.value.content[1].text, req.args.siteId)

C1_Witness ==
  /\ IsCall("get_site") /\ ValidSiteIdArgs /\ NotFoundRaised
  /\ pc = "completed"
  /\ req.args.siteId = <<"a", "b">>

GenericMessage(name) ==
  IF name = "get_site" THEN <<"Failed to fetch site details">>
  ELSE <<"Failed to fetch sites list">>

OtherErrorRaised ==
  /\ req.kind = "call_tool"
  /\ req.name \in {"get_site", "get_sites"}
  /\ remoteOut.kind = "throw"
  /\ ~NotFoundRaised

\* C2: a get_site or get_sites request whose remote call raises anything but
\* the not-found condition ends failed with the handler's fixed generic
\* message; the raw upstream value is not in what is returned or thrown to
\* the caller, and it is in the log.
C2_OtherErrorIsGenericFailure ==
  OtherErrorRaised
    => /\ pc = "failed"
       /\ resp.status = "failed"
       /\ resp.error.name = "Error"
       /\ resp.error.message = GenericMessage(req.name)
       /\ resp.error # remoteOut.error
       /\ ~Contains(resp.error.message, remoteOut.error.message)
       /\ resp.value = NoValue
       /\ \E i \in 1..Len(log) : log[i].value = remoteOut.error

C2_Witness ==
  /\ OtherErrorRaised
  /\ req.name = "get_sites"
  /\ remoteOut.error.code = "UNAUTHORIZED"
  /\ pc = "failed"

\* C3: a get_site request whose siteId is the empty string, missing or not a
\* string ends failed with a validation error and no remote call was made.
C3_InvalidSiteIdFailsBeforeFetch ==
  (IsCall("get_site") /\ ~ValidSiteIdArgs)
    => /\ pc = "failed"
       /\ resp.status = "failed"
       /\ resp.error.name = "ZodError"
       /\ remoteCalls = <<>>
       /\ remoteOut = NoOutcome

C3_Witness ==
  /\ IsCall("get_site")
  /\ req.args.typeofv = "object" /\ ~req.args.isNull
  /\ req.args.siteIdType = "string" /\ req.args.siteId = <<>>
  /\ pc = "failed"

\* C4: a get_site request with a valid siteId has, from its dispatch to its
\* terminal state and whatever the remote outcome, issued exactly one remote
\* single-site fetch, with that siteId.
C4_ExactlyOneFetch ==
  (IsCall("get_site") /\ ValidSiteIdArgs)
    => /\ Len(remoteCalls) = 1
       /\ remoteCalls[1].op = "sites.get"
       /\ remoteCalls[1].arg = req.args.siteId

C4_Witness ==
  /\ IsCall("get_site") /\ ValidSiteIdArgs
  /\ remoteOut.kind = "throw" /\ ~NotFoundRaised
  /\ pc = "failed"
  /\ Len(remoteCalls) = 1

\* C5: a call_tool request whose name is not get_site or get_sites (names
\* inherited from Object.prototype included) ends failed with an unknown-tool
\* error, no function was invoked as handler and no remote call was made.
C5_UnregisteredNameFails ==
  (req.kind = "call_tool" /\ req.name \notin {"get_site", "get_sites"})
    => /\ pc = "failed"
       /\ resp.error.message = <<"Unknown tool: ", req.name>>
       /\ invoked = "none"
       /\ remoteCalls = <<>>

\* C6: a get_sites request whose arguments violate the get_sites input schema
\* ends failed with a validation error and no remote list call was made.
C6_GetSitesValidates ==
  (IsCall("get_sites") /\ ~getSitesAccepts(req.args))
    => /\ remoteCalls = <<>>
       /\ pc # "executing" => (pc = "failed" /\ resp.error.name = "ZodError")

(* reading a get_sites text back: the blocks and their fields *)
BlockStart == "\n* Site: "

BlockStarts(text) == { i \in 1..Len(text) : text[i] = BlockStart }

NthStart(text, k) ==
  CHOOSE p \in BlockStarts(text) :
    Cardinality({ q \in BlockStarts(text) : q < p }) = k - 1

\* the k-th block of the text: from its start marker to the next one
BlockAt(text, k) ==
  LET from == NthStart(text, k)
      to == IF k < Cardinality(BlockStarts(text))
            THEN NthStart(text, k + 1) - 1 ELSE Len(text)
  IN SubSeq(text, from, to)

IndexOf(seq, tok) ==
  CHOOSE i \in 1..Len(seq) : seq[i] = tok /\ \A j \in 1..(i - 1) : seq[j] # tok

Has(seq, tok) == \E i \in 1..Len(seq) : seq[i] = tok

Between(seq, a, b) == SubSeq(seq, IndexOf(seq, a) + 1, IndexOf(seq, b) - 1)

BlockLabels ==
  <<BlockStart, "\n  - ID: ", "\n  - Workspace: ", "\n  - Created: ",
    "\n  - Last Published: ", "\n  - Preview URL: ", "\n">>

\* the six values of a block, in the order they are printed
BlockFields(block) ==
  [ f \in 1..6 |-> Between(block, BlockLabels[f], BlockLabels[f + 1]) ]

WellFormedBlock(block) ==
  /\ \A f \in 1..7 : Has(block, BlockLabels[f])
  /\ \A f \in 1..6 : IndexOf(block, BlockLabels[f]) < IndexOf(block, BlockLabels[f + 1])

DateShown(date) ==
  IF date \in {"undefined", "null"} THEN <<"N/A">> ELSE <<"locale(", date, ")">>

UrlShown(p) == IF p.defined /\ p.value # <<>> THEN p.value ELSE <<"N/A">>

SiteFields(site) ==
  << site.displayName, site.id, site.workspaceId, DateShown(site.createdOn),
     DateShown(site.lastPublished), UrlShown(site.previewUrl) >>

\* C7: a get_sites request whose remote list call returns n >= 1 records
\* completes with exactly one text item that states the count n and holds
\* exactly n blocks, block i rendering record i; when the list is empty or
\* not a list, the one text item is the fixed no-sites-found message.
C7_ListRendering ==
  /\ (IsCall("get_sites") /\ remoteOut.kind = "list" /\ Len(remoteOut.sites) >= 1)
       => /\ pc = "completed"
          /\ OneTextItem
          /\ LET text == resp.value.content[1].text
                 n == Len(remoteOut.sites)
             IN /\ SubSeq(text, 1, 3) = <<"Found ", Digit[n + 1], " sites:\n">>
                /\ Cardinality(BlockStarts(text)) = n
                /\ \A i \in 1..n :
                     /\ WellFormedBlock(BlockAt(text, i))
                     /\ BlockFields(BlockAt(text, i)) = SiteFields(remoteOut.sites[i])
  /\ (IsCall("get_sites")
      /\ (remoteOut.kind = "notlist" \/ (remoteOut.kind = "list" /\ Len(remoteOut.sites) = 0)))
       => /\ pc = "completed"
          /\ OneTextItem
          /\ resp.value.content[1].text = <<"No sites found for this account.">>

C7_Witness ==
  /\ IsCall("get_sites")
  /\ remoteOut.kind = "list"
  /\ Len(remoteOut.sites) = 2
  /\ remoteOut.sites[1] # remoteOut.sites[2]
  /\ pc = "completed"

TokenMissing == env \in {"absent", "empty"}

\* C8: when WEBFLOW_API_TOKEN is absent or empty the process ends terminated
\* with a non-zero exit status, and in no state of that run has the transport
\* been created, the server been connected or a request been handled.
C8_MissingTokenTerminates ==
  /\ [](TokenMissing =>
          /\ ~transportCreated
          /\ ~connected
          /\ handled = 0
          /\ req = NoRequest
          /\ (phase = "terminated" => exitCode # 0 /\ exitCode # -1))
  /\ (TokenMissing ~> (phase = "terminated" /\ exitCode = 1))

C8_Witness == TokenMissing /\ env = "empty" /\ phase = "terminated" /\ exitCode = 1

DescriptorNames(defs) == [ i \in 1..Len(defs) |-> defs[i].name ]

\* a request failed before the one now in req
FailedEarlier == failures > (IF pc = "failed" THEN 1 ELSE 0)

\* what a call_tool request answers on a server no request has failed on
PristineAnswer(name, args, out) ==
  LET step == CallToolStep(toolHandlers, "tok", name, args) IN
  IF ~step.pending THEN step.out
  ELSE IF name = "get_site" THEN DispatchSettle(name, GetSiteResume(out, args.siteId))
  ELSE DispatchSettle(name, GetSitesResume(out))

\* C9: after call_tool requests have failed the server still serves: the
\* token, the registry and the handler table are what they were, the next
\* list_tools request returns the descriptors get_site and get_sites, and the
\* next call_tool request has the outcome it has with no failure before it.
C9_FailuresChangeNothing ==
  /\ failures > 0
       => /\ phase = "running"
          /\ accessToken = "tok"
          /\ DescriptorNames(toolDefs) = <<"get_site", "get_sites">>
          /\ handlerTable = {"get_site", "get_sites"}
          /\ (pc # "executing" /\ handled < MaxRequests)
               => (ENABLED ListTools /\ ENABLED CallTool)
  /\ FailedEarlier
       => /\ req.kind = "list_tools"
               => /\ resp.status = "completed"
                  /\ DescriptorNames(resp.tools) = <<"get_site", "get_sites">>
          /\ (req.kind = "call_tool" /\ pc # "executing")
               => LET a == PristineAnswer(req.name, req.args, remoteOut) IN
                  /\ resp.status = a.status
                  /\ resp.value = a.value
                  /\ resp.error = a.error
          /\ (req.kind = "call_tool" /\ pc = "executing")
               => remoteCalls = CallToolStep(toolHandlers, "tok", req.name, req.args).calls

C9_Witness ==
  /\ failures >= 1
  /\ req.kind = "list_tools"
  /\ pc = "completed"
  /\ DescriptorNames(resp.tools) = <<"get_site", "get_sites">>

\* C10: a get_site request with a valid siteId whose remote fetch returns
\* null or undefined ends failed with "Failed to fetch site details"; the
\* completed "not found" result comes only from a raised error whose code is
\* NOT_FOUND.
C10_NoRecordIsFailure ==
  /\ (IsCall("get_site") /\ ValidSiteIdArgs /\ remoteOut.kind \in {"null", "undefined"})
       => /\ pc = "failed"
          /\ resp.status = "failed"
          /\ resp.error.message = <<"Failed to fetch site details">>
          /\ resp.value = NoValue
  /\ (IsCall("get_site") /\ pc = "completed"
      /\ resp.value.kind = "content"
      /\ Contains(resp.value.content[1].text, <<" not found.">>))
       => NotFoundRaised

C10_Witness ==
  /\ IsCall("get_site") /\ ValidSiteIdArgs
  /\ remoteOut.kind = "null"
  /\ pc = "failed"

====
